---- MODULE Spec2Model ----
(***************************************************************************)
(* A model of the hal9 gateway, server/src/server.rs: the request handlers *)
(* (ping, eval, pipeline, pipeline_post), the channels start_server builds *)
(* between them and the runtimes controller, and the heartbeat state.      *)
(* The controller, the heartbeat monitor and the filesystem watcher live   *)
(* in crate::runtimes and crate::util; they are modelled from spec.md.     *)
(***************************************************************************)
EXTENDS Integers, Sequences, FiniteSets, TLC

\* ------------------------------------------------------------------ bounds
NumHandlers == 3       \* request slots (connections) the model follows
NumWorkers == 2        \* actix worker threads (HttpServer default: one per core)
MaxRequests == 2       \* requests accepted in one run
MaxManifests == 2      \* longest manifests sequence of an Eval body
MaxRestarts == 1       \* restarts of one runtime the controller performs
MaxKills == 1          \* external kills of runtime processes in one run
MaxFsEvents == 1       \* change notifications the filesystem watcher sends
MaxBodyLen == 2        \* longest PutPipeline body, in bytes
MaxJitter == 1         \* instants followed after the start and after the threshold

\* ------------------------------------------------------- program constants
IdleThreshold == 60    \* start_server: monitor_heartbeat(.., 60, ..)

Handlers == 1..NumHandlers
Workers == 1..NumWorkers
WorkerOf(h) == ((h - 1) % NumWorkers) + 1

Declared == {"r", "py"}          \* runtimes of the configuration (conf.runtimes)
RuntimeNames == Declared \cup {"x"}
Calls == {"c1", "c2"}
Manifest == [runtime : RuntimeNames, calls : Calls]

NoUrl == [rt |-> "", gen |-> 0, path |-> <<>>]
NoResp == [status |-> 0, body |-> <<>>]
NoFile == <<-1>>
Bytes == {1, 2}
InitialFile == <<1>>           \* app.json as start_server finds it


\* ------------------------------------------------------------------- state
VARIABLES
  clock,        \* what time_now() returns
  hb,           \* AppState.last_heartbeat, the AtomicUsize
  lastPing,     \* history: the clock reading of the latest Ping that stored
  fired,        \* history: when the monitor signalled, and how long after lastPing
  queue,        \* the mpsc channel (tx, rx) of RtControllerMsg
  sentCount,    \* history: GetUri messages sent so far; the n-th carries id n
  ctrl,         \* the controller thread: where it is, the reply it is sending
  table,        \* the controller's runtime table
  alive,        \* whether the process behind table[n]'s endpoint is running
  killed,       \* history: per runtime, the newest generation killed so far
  kills,        \* history: external kills so far
  fsEvents,     \* history: FsChanged notifications sent so far
  monitorDone,  \* the heartbeat monitor has signalled and ended
  accepting,    \* the HTTP server still accepts requests
  pc,           \* per request slot: where its handler is
  kind,         \* per request slot: which handler runs in it
  ev,           \* per request slot: locals of eval
  pg,           \* per request slot: locals of ping
  pl,           \* per request slot: locals of pipeline / pipeline_post
  resp,         \* per request slot: the HTTP response produced
  file,         \* app.json in app_dir: its bytes, or NoFile
  lastPut,      \* history: the body of the PutPipeline that last returned
                \* success with no PutPipeline begun since, or NoFile
  nreq,         \* history: requests accepted so far
  overlap       \* history: some Eval began while another was in flight

vars == <<clock, hb, lastPing, fired, queue, sentCount, ctrl, table, alive,
          killed, kills, fsEvents, monitorDone, accepting, pc, kind, ev, pg,
          pl, resp, file, lastPut, nreq, overlap>>

heartbeatVars == <<clock, hb, lastPing, fired, monitorDone, accepting>>
ctrlVars == <<ctrl, table, alive, killed, kills>>

\* ----------------------------------------------------------------- helpers
Min(a, b) == IF a < b THEN a ELSE b

\* The instants the clock is followed at: from the start, and from the moment
\* the idle threshold has passed since the start.
Instants == { k + j : k \in {0, IdleThreshold}, j \in 0..MaxJitter }

Msg(t, n, i) == [type |-> t, name |-> n, id |-> i]

NoReply == [status |-> 0, json |-> [val |-> "", fmt |-> ""]]
NoEval == [rt |-> "", calls |-> "", sent |-> 0, got |-> 0, uri |-> NoUrl,
           kgen |-> [n \in Declared |-> 0], reply |-> NoReply,
           empty |-> FALSE]
NoPing == [prev |-> 0, new |-> 0, read |-> 0, wrote |-> -1]
NotFired == [at |-> -1, gap |-> -1]
NoPipe == [req |-> <<>>, pos |-> 0, size |-> 0, expect |-> NoFile,
           old |-> NoFile]

\* All sequences over S of length at most n.
SeqsUpTo(S, n) == UNION { [1..k -> S] : k \in 0..n }

EvalBodies == SeqsUpTo(Manifest, MaxManifests)
\* One body for each runtime name: eval looks at manifests[0] alone.
ShortBodies == { <<[runtime |-> n, calls |-> "c1"]>> : n \in RuntimeNames }

\* Url::join(segment): the last segment of the base path is replaced.
JoinUrl(u, seg) ==
  [u EXCEPT !.path = (IF Len(u.path) = 0 THEN <<>>
                      ELSE SubSeq(u.path, 1, Len(u.path) - 1)) \o <<seg>>]

\* The endpoint the controller has for runtime n: scheme://host:port/
Endpoint(n, g) == [rt |-> n, gen |-> g, path |-> <<"">>]

\* A handler holds its worker thread from the moment it is polled until it
\* awaits: rx_uri_handler.recv() is a blocking call, so "wait_uri" holds it.
HoldsThread(h) ==
  pc[h] \in {"wait_uri", "ping_clock", "ping_cas", "ping_load", "put_write"}

CanRun(h) ==
  \A o \in Handlers \ {h} : WorkerOf(o) = WorkerOf(h) => ~HoldsThread(o)

\* A request is taken up by a worker whose thread is free; of the idle slots
\* of that worker it gets the lowest.
Accept(h) ==
  /\ accepting
  /\ pc[h] = "idle"
  /\ \A o \in 1..(h - 1) : WorkerOf(o) = WorkerOf(h) => pc[o] # "idle"
  /\ nreq < MaxRequests
  /\ CanRun(h)

\* --------------------------------------------------------------------- init
\* start_server up to tokio::spawn(http_server): StartAll and GetUri("r") are
\* in the queue, the heartbeat holds the start time, no request has arrived.
\* What start_server sends before anything else can (server.rs 115-116).
StartupMessagesGetUriFirst == <<Msg("GetUri", "r", 1), Msg("StartAll", "", 0)>>

StartupMessages == <<Msg("StartAll", "", 0), Msg("GetUri", "r", 1)>>

Init ==
  /\ clock = 0
  /\ hb = 0
  /\ lastPing = 0
  /\ fired = NotFired
  /\ queue = StartupMessages
  /\ sentCount = 1
  /\ ctrl = [pc |-> "recv", url |-> NoUrl, id |-> 0, err |-> ""]
  /\ table = [n \in Declared |-> [status |-> "None", gen |-> 0, restarts |-> 0]]
  /\ alive = [n \in Declared |-> FALSE]
  /\ killed = [n \in Declared |-> 0]
  /\ kills = 0
  /\ fsEvents = 0
  /\ monitorDone = FALSE
  /\ accepting = TRUE
  /\ pc = [h \in Handlers |-> "idle"]
  /\ kind = [h \in Handlers |-> "none"]
  /\ ev = [h \in Handlers |-> NoEval]
  /\ pg = [h \in Handlers |-> NoPing]
  /\ pl = [h \in Handlers |-> NoPipe]
  /\ resp = [h \in Handlers |-> NoResp]
  /\ file \in {NoFile, InitialFile}
  /\ lastPut = NoFile
  /\ nreq = 0
  /\ overlap = FALSE

\* --------------------------------------------- the controller (crate::runtimes)
CtrlReady == ctrl.pc = "recv" /\ queue # <<>>

\* StartAll: spawn every declared runtime, record it as Starting.
CtrlStartAll ==
  /\ CtrlReady
  /\ Head(queue).type = "StartAll"
  /\ queue' = Tail(queue)
  /\ table' = [n \in Declared |->
                 [status |-> "Starting", gen |-> table[n].gen + 1, restarts |-> 0]]
  /\ UNCHANGED <<heartbeatVars, sentCount, ctrl, alive, killed, kills, fsEvents,
                 pc, kind, ev, pg, pl, resp, file, lastPut, nreq, overlap>>

\* A spawned runtime has bound its endpoint: Starting -> Ready.
RuntimeReady(n) ==
  /\ ctrl.pc = "recv"
  /\ table[n].status = "Starting"
  /\ table' = [table EXCEPT ![n].status = "Ready"]
  /\ alive' = [alive EXCEPT ![n] = TRUE]
  /\ UNCHANGED <<heartbeatVars, queue, sentCount, ctrl, killed, kills, fsEvents,
                 pc, kind, ev, pg, pl, resp, file, lastPut, nreq, overlap>>

\* What GetUri(name) resolves to: an endpoint, or an error.
Resolve(name) ==
  IF name \notin Declared THEN [err |-> "UnknownRuntime", url |-> NoUrl]
  ELSE IF table[name].status = "Ready"
       THEN [err |-> "", url |-> Endpoint(name, table[name].gen)]
       ELSE [err |-> "RuntimeUnavailable", url |-> NoUrl]

\* GetUri(name): the endpoint goes out on tx_uri, a crossbeam bounded(0)
\* channel of Url: the send blocks until a handler receives. An error has no
\* representation on a channel of Url, so a failed GetUri sends nothing.
CtrlGetUri ==
  /\ CtrlReady
  /\ Head(queue).type = "GetUri"
  /\ LET m == Head(queue)
         r == Resolve(m.name)
     IN /\ m.name \in Declared => table[m.name].status # "Starting"
        /\ ctrl' = IF r.err = ""
                   THEN [pc |-> "send", url |-> r.url, id |-> m.id, err |-> ""]
                   ELSE [pc |-> "recv", url |-> NoUrl, id |-> m.id, err |-> r.err]
  /\ queue' = Tail(queue)
  /\ UNCHANGED <<heartbeatVars, sentCount, table, alive, killed, kills, fsEvents,
                 pc, kind, ev, pg, pl, resp, file, lastPut, nreq, overlap>>

\* ProcessExited(name): Crashed, then restarted with a fresh endpoint, or
\* Stopped for good once the restart budget is spent.
CtrlProcessExited ==
  /\ CtrlReady
  /\ Head(queue).type = "ProcessExited"
  /\ LET n == Head(queue).name
     IN table' = IF table[n].restarts < MaxRestarts
                 THEN [table EXCEPT ![n] = [status |-> "Starting",
                                            gen |-> table[n].gen + 1,
                                            restarts |-> table[n].restarts + 1]]
                 ELSE [table EXCEPT ![n].status = "Stopped"]
  /\ queue' = Tail(queue)
  /\ UNCHANGED <<heartbeatVars, sentCount, ctrl, alive, killed, kills, fsEvents,
                 pc, kind, ev, pg, pl, resp, file, lastPut, nreq, overlap>>

\* HeartbeatTimeout: the orderly shutdown. Every runtime is stopped and the
\* controller ends, which drops rx and tx_uri.
CtrlHeartbeatTimeout ==
  /\ CtrlReady
  /\ Head(queue).type = "HeartbeatTimeout"
  /\ table' = [n \in Declared |-> [table[n] EXCEPT !.status = "Stopped"]]
  /\ alive' = [n \in Declared |-> FALSE]
  /\ ctrl' = [pc |-> "stopped", url |-> NoUrl, id |-> 0, err |-> ""]
  /\ queue' = <<>>
  /\ UNCHANGED <<heartbeatVars, sentCount, killed, kills, fsEvents,
                 pc, kind, ev, pg, pl, resp, file, lastPut, nreq, overlap>>

\* FsChanged: the reload policy is open; the table is left as it is.
CtrlFsChanged ==
  /\ CtrlReady
  /\ Head(queue).type = "FsChanged"
  /\ queue' = Tail(queue)
  /\ UNCHANGED <<heartbeatVars, sentCount, ctrlVars, fsEvents,
                 pc, kind, ev, pg, pl, resp, file, lastPut, nreq, overlap>>

\* ----------------------------------------------------------- the environment
\* A runtime process is killed from outside; its exit is observed.
KillRuntime(n) ==
  /\ alive[n]
  /\ kills < MaxKills
  /\ ctrl.pc # "stopped"
  /\ alive' = [alive EXCEPT ![n] = FALSE]
  /\ killed' = [killed EXCEPT ![n] = table[n].gen]
  /\ kills' = kills + 1
  /\ queue' = Append(queue, Msg("ProcessExited", n, 0))
  /\ UNCHANGED <<heartbeatVars, sentCount, ctrl, table, fsEvents,
                 pc, kind, ev, pg, pl, resp, file, lastPut, nreq, overlap>>

\* monitor_fs_changes(app_path, 1000, tx_fs): a change under app_dir.
FsWatch ==
  /\ fsEvents < MaxFsEvents
  /\ ctrl.pc # "stopped"
  /\ fsEvents' = fsEvents + 1
  /\ queue' = Append(queue, Msg("FsChanged", "", 0))
  /\ UNCHANGED <<heartbeatVars, sentCount, ctrlVars,
                 pc, kind, ev, pg, pl, resp, file, lastPut, nreq, overlap>>

\* Time passes: to instant t.
TickTo(t) ==
  /\ t \in Instants
  /\ t > clock
  /\ clock' = t
  /\ UNCHANGED <<hb, lastPing, fired, monitorDone, accepting, queue,
                 sentCount, ctrlVars, fsEvents, pc, kind, ev, pg, pl, resp, file, lastPut, nreq, overlap>>

\* ------------------------------------------ the heartbeat monitor (crate::util)
Breach(now, last) == now - last >= IdleThreshold

\* One poll that finds the idle threshold breached: HeartbeatTimeout is
\* enqueued, the server handle is told to stop, and the task ends.
MonitorPoll ==
  /\ ~monitorDone
  /\ Breach(clock, hb)
  /\ monitorDone' = TRUE
  /\ accepting' = FALSE
  /\ fired' = [at |-> clock, gap |-> clock - lastPing]
  /\ queue' = Append(queue, Msg("HeartbeatTimeout", "", 0))
  /\ UNCHANGED <<clock, hb, lastPing, sentCount, ctrlVars, fsEvents,
                 pc, kind, ev, pg, pl, resp, file, lastPut, nreq, overlap>>

\* ------------------------------------------------------------------- eval
\* A backend's reply: a status and a JSON text. A text is a value and the way
\* it is written out; serde_json::to_string writes the compact form.
JsonTexts == {[val |-> "v1", fmt |-> "pretty"],
              [val |-> "", fmt |-> "malformed"]}
BackendReplies == [status : {200, 500}, json : JsonTexts]
ParseJson(j) == IF j.fmt = "malformed" THEN [ok |-> FALSE, val |-> ""]
                ELSE [ok |-> TRUE, val |-> j.val]
ToJsonString(v) == [val |-> v, fmt |-> "compact"]

\* The Evals that have been taken up and have neither answered nor panicked.
InFlight == {o \in Handlers : pc[o] \in {"wait_uri", "wait_backend"}}

\* server.rs 54-56: manifests[0] is indexed, GetUri(rt) is sent, both unwrapped.
EvalSend(h, m) ==
  IF Len(m) = 0 \/ ctrl.pc = "stopped"
  THEN /\ pc' = [pc EXCEPT ![h] = "panicked"]
       /\ ev' = [ev EXCEPT ![h].empty = (Len(m) = 0)]
       /\ UNCHANGED <<queue, sentCount>>
  ELSE /\ pc' = [pc EXCEPT ![h] = "wait_uri"]
       /\ ev' = [ev EXCEPT ![h] = [rt |-> m[1].runtime, calls |-> m[1].calls,
                                   sent |-> sentCount + 1, got |-> 0,
                                   uri |-> NoUrl, kgen |-> killed,
                                   reply |-> NoReply, empty |-> FALSE]]
       /\ queue' = Append(queue, Msg("GetUri", m[1].runtime, sentCount + 1))
       /\ sentCount' = sentCount + 1

EvalStart(h, m) ==
  /\ Accept(h)
  /\ kind' = [kind EXCEPT ![h] = "eval"]
  /\ nreq' = nreq + 1
  /\ overlap' = (overlap \/ InFlight # {})
  /\ EvalSend(h, m)
  /\ UNCHANGED <<heartbeatVars, ctrlVars, fsEvents, pg, pl, resp, file, lastPut>>

\* The uri a handler goes on with once recv() has returned url (server.rs 58).
EvalUri(url) == JoinUrl(url, "eval")

\* A handler that looks the endpoint up in the runtime table itself.
EvalRecvFromTable(h) ==
  /\ pc[h] = "wait_uri"
  /\ ev[h].rt \in Declared
  /\ ev' = [ev EXCEPT ![h].uri = EvalUri(Endpoint(ev[h].rt, table[ev[h].rt].gen)),
                      ![h].got = ev[h].sent]
  /\ pc' = [pc EXCEPT ![h] = "wait_backend"]
  /\ UNCHANGED <<heartbeatVars, queue, sentCount, ctrlVars,
                 fsEvents, kind, pg, pl, resp, file, lastPut, nreq, overlap>>

\* server.rs 58-68: recv() returns the url the controller is sending, whoever
\* it was resolved for; the POST of manifests[0].calls is issued to it.
EvalRecv(h) ==
  /\ pc[h] = "wait_uri"
  /\ ctrl.pc = "send"
  /\ ev' = [ev EXCEPT ![h].uri = EvalUri(ctrl.url), ![h].got = ctrl.id]
  /\ pc' = [pc EXCEPT ![h] = "wait_backend"]
  /\ ctrl' = [pc |-> "recv", url |-> NoUrl, id |-> 0, err |-> ""]
  /\ UNCHANGED <<heartbeatVars, queue, sentCount, table, alive, killed, kills,
                 fsEvents, kind, pg, pl, resp, file, lastPut, nreq, overlap>>

\* server.rs 58: recv() fails once tx_uri is dropped; unwrap panics.
EvalRecvClosed(h) ==
  /\ pc[h] = "wait_uri"
  /\ ctrl.pc = "stopped"
  /\ pc' = [pc EXCEPT ![h] = "panicked"]
  /\ UNCHANGED <<heartbeatVars, queue, sentCount, ctrlVars, fsEvents,
                 kind, ev, pg, pl, resp, file, lastPut, nreq, overlap>>

\* Whether a process listens at the endpoint of uri.
Listening(uri) ==
  /\ uri.rt \in Declared
  /\ alive[uri.rt]
  /\ table[uri.rt].gen = uri.gen

\* server.rs 64-76: the reply is parsed as RuntimeResponse and written out
\* again; the status is never looked at. Every failure is an unwrap.
EvalRelay(h, reply) ==
  IF ParseJson(reply.json).ok
  THEN /\ resp' = [resp EXCEPT ![h] =
                     [status |-> 200,
                      body |-> ToJsonString(ParseJson(reply.json).val)]]
       /\ pc' = [pc EXCEPT ![h] = "done"]
  ELSE /\ resp' = resp
       /\ pc' = [pc EXCEPT ![h] = "panicked"]

EvalBackendReply(h, reply) ==
  /\ pc[h] = "wait_backend"
  /\ CanRun(h)
  /\ Listening(ev[h].uri)
  /\ ev' = [ev EXCEPT ![h].reply = reply]
  /\ EvalRelay(h, reply)
  /\ UNCHANGED <<heartbeatVars, queue, sentCount, ctrlVars, fsEvents,
                 kind, pg, pl, file, lastPut, nreq, overlap>>

\* server.rs 69: nothing listens at the uri; send() fails, unwrap panics.
EvalBackendDown(h) ==
  /\ pc[h] = "wait_backend"
  /\ CanRun(h)
  /\ ~Listening(ev[h].uri)
  /\ pc' = [pc EXCEPT ![h] = "panicked"]
  /\ UNCHANGED <<heartbeatVars, queue, sentCount, ctrlVars, fsEvents,
                 kind, ev, pg, pl, resp, file, lastPut, nreq, overlap>>

\* The connection of a finished (or panicked) request goes away.
Finish(h) ==
  /\ pc[h] \in {"done", "panicked"}
  /\ pc' = [pc EXCEPT ![h] = "idle"]
  /\ kind' = [kind EXCEPT ![h] = "none"]
  /\ ev' = [ev EXCEPT ![h] = NoEval]
  /\ pg' = [pg EXCEPT ![h] = NoPing]
  /\ pl' = [pl EXCEPT ![h] = NoPipe]
  /\ resp' = [resp EXCEPT ![h] = NoResp]
  /\ UNCHANGED <<heartbeatVars, queue, sentCount, ctrlVars, fsEvents, file, lastPut, nreq, overlap>>

\* ------------------------------------------------------------------- ping
\* usize::to_string: the decimal digits, most significant first.
RECURSIVE Digits(_)
Digits(n) == IF n < 10 THEN <<n>> ELSE Append(Digits(n \div 10), n % 10)

\* A closure that does not take the time it is given.
PingNewStale(now) == 0

\* The closure of fetch_update: Some(time_now().try_into().unwrap()).
PingNew(now) == now

\* A store that does not compare.
CasOkAlways(cur, prev) == TRUE

\* compare_exchange_weak(prev, new): whether it may store.
CasOk(cur, prev) == cur = prev

\* server.rs 39-40: fetch_update loads the current value.
PingStart(h) ==
  /\ Accept(h)
  /\ kind' = [kind EXCEPT ![h] = "ping"]
  /\ nreq' = nreq + 1
  /\ overlap' = overlap
  /\ pg' = [pg EXCEPT ![h].prev = hb]
  /\ pc' = [pc EXCEPT ![h] = "ping_clock"]
  /\ UNCHANGED <<heartbeatVars, queue, sentCount, ctrlVars, fsEvents,
                 ev, pl, resp, file, lastPut>>

\* server.rs 41: the closure reads the clock; it runs again on every retry.
PingClock(h) ==
  /\ pc[h] = "ping_clock"
  /\ pg' = [pg EXCEPT ![h].new = PingNew(clock), ![h].read = clock]
  /\ pc' = [pc EXCEPT ![h] = "ping_cas"]
  /\ UNCHANGED <<clock, hb, lastPing, fired, monitorDone, accepting, queue,
                 sentCount, ctrlVars, fsEvents, kind, ev, pl, resp, file, lastPut, nreq, overlap>>

\* fetch_update's compare_exchange_weak: stores new if the value is still
\* prev; otherwise takes the value found as prev and goes round again.
PingCas(h) ==
  /\ pc[h] = "ping_cas"
  /\ IF CasOk(hb, pg[h].prev)
     THEN /\ hb' = pg[h].new
          /\ lastPing' = pg[h].read
          /\ pg' = [pg EXCEPT ![h] = [NoPing EXCEPT !.wrote = pg[h].new]]
          /\ pc' = [pc EXCEPT ![h] = "ping_load"]
     ELSE /\ pg' = [pg EXCEPT ![h].prev = hb]
          /\ pc' = [pc EXCEPT ![h] = "ping_clock"]
          /\ UNCHANGED <<hb, lastPing>>
  /\ UNCHANGED <<clock, fired, monitorDone, accepting, queue, sentCount,
                 ctrlVars, fsEvents, kind, ev, pl, resp, file, lastPut, nreq, overlap>>

\* compare_exchange_weak may fail although the value is still prev.
PingCasSpurious(h) ==
  /\ pc[h] = "ping_cas"
  /\ hb = pg[h].prev
  /\ pc' = [pc EXCEPT ![h] = "ping_clock"]
  /\ UNCHANGED <<heartbeatVars, queue, sentCount, ctrlVars, fsEvents,
                 kind, ev, pg, pl, resp, file, lastPut, nreq, overlap>>

\* server.rs 45-47: a second, separate load; its decimal form is the body.
PingLoad(h) ==
  /\ pc[h] = "ping_load"
  /\ resp' = [resp EXCEPT ![h] = [status |-> 200, body |-> Digits(hb)]]
  /\ pc' = [pc EXCEPT ![h] = "done"]
  /\ UNCHANGED <<heartbeatVars, queue, sentCount, ctrlVars, fsEvents,
                 kind, ev, pg, pl, file, lastPut, nreq, overlap>>

\* --------------------------------------------------------------- pipeline
Bodies == SeqsUpTo(Bytes, MaxBodyLen)

\* A write of chunk at offset pos of a file holding f; a gap left by a
\* truncation reads as zero bytes.
WriteAt(f, pos, chunk) ==
  LET padded == IF Len(f) < pos THEN f \o [i \in 1..(pos - Len(f)) |-> 0] ELSE f
  IN SubSeq(padded, 1, pos) \o chunk
       \o SubSeq(padded, pos + Len(chunk) + 1, Len(padded))

\* The status pipeline_post answers with once write! has returned r
\* (server.rs 91-92): the result is dropped by .ok().
PutStatus(r) == 200

PutBegin(h) ==
  /\ Accept(h)
  /\ kind' = [kind EXCEPT ![h] = "put"]
  /\ nreq' = nreq + 1
  /\ overlap' = overlap
  /\ lastPut' = NoFile
  /\ UNCHANGED <<heartbeatVars, queue, sentCount, ctrlVars, fsEvents, ev, pg>>

\* server.rs 90: File::create succeeds and truncates app.json. An empty body
\* needs no write call, and the handler answers at once.
PutCreate(h, b) ==
  /\ PutBegin(h)
  /\ file' = <<>>
  /\ pl' = [g \in Handlers |->
              IF g = h THEN [NoPipe EXCEPT !.req = b, !.old = file]
              ELSE [pl[g] EXCEPT !.expect = NoFile]]
  /\ IF Len(b) = 0
     THEN /\ pc' = [pc EXCEPT ![h] = "done"]
          /\ resp' = [resp EXCEPT ![h] = [status |-> PutStatus("ok"), body |-> "{}"]]
     ELSE /\ pc' = [pc EXCEPT ![h] = "put_write"]
          /\ resp' = resp

\* server.rs 90: File::create fails (permissions, no such directory): unwrap.
PutCreateFail(h, b) ==
  /\ PutBegin(h)
  /\ pl' = [g \in Handlers |->
              IF g = h THEN [NoPipe EXCEPT !.req = b]
              ELSE [pl[g] EXCEPT !.expect = NoFile]]
  /\ pc' = [pc EXCEPT ![h] = "panicked"]
  /\ UNCHANGED <<file, resp>>

\* server.rs 91: write_all writes the body at the handle's offset, k bytes at
\* a time; after the last the handler answers (server.rs 92).
PutWrite(h, k) ==
  /\ pc[h] = "put_write"
  /\ k \in 1..(Len(pl[h].req) - pl[h].pos)
  /\ file' = WriteAt(file, pl[h].pos, SubSeq(pl[h].req, pl[h].pos + 1, pl[h].pos + k))
  /\ pl' = [pl EXCEPT ![h].pos = pl[h].pos + k]
  /\ IF pl[h].pos + k = Len(pl[h].req)
     THEN /\ pc' = [pc EXCEPT ![h] = "done"]
          /\ resp' = [resp EXCEPT ![h] = [status |-> PutStatus("ok"), body |-> "{}"]]
          /\ lastPut' = pl[h].req
     ELSE UNCHANGED <<pc, resp, lastPut>>
  /\ UNCHANGED <<heartbeatVars, queue, sentCount, ctrlVars, fsEvents,
                 kind, ev, pg, nreq, overlap>>

\* server.rs 91-92: a write fails (disk full, I/O error); write! returns Err,
\* .ok() drops it and the handler answers all the same.
PutWriteFail(h) ==
  /\ pc[h] = "put_write"
  /\ pc' = [pc EXCEPT ![h] = "done"]
  /\ resp' = [resp EXCEPT ![h] = [status |-> PutStatus("err"), body |-> "{}"]]
  /\ lastPut' = IF PutStatus("err") = 200 THEN pl[h].req ELSE lastPut
  /\ UNCHANGED <<heartbeatVars, queue, sentCount, ctrlVars, fsEvents,
                 kind, ev, pg, pl, file, nreq, overlap>>

\* server.rs 79-83: NamedFile::open; a missing file is answered 404. The
\* length is taken at open, the bytes are read when the body is streamed.
GetStart(h) ==
  /\ Accept(h)
  /\ kind' = [kind EXCEPT ![h] = "get"]
  /\ nreq' = nreq + 1
  /\ overlap' = overlap
  /\ IF file = NoFile
     THEN /\ pc' = [pc EXCEPT ![h] = "done"]
          /\ resp' = [resp EXCEPT ![h] = [status |-> 404, body |-> <<>>]]
          /\ pl' = [pl EXCEPT ![h] = [NoPipe EXCEPT !.expect = lastPut]]
     ELSE /\ pc' = [pc EXCEPT ![h] = "get_read"]
          /\ resp' = resp
          /\ pl' = [pl EXCEPT ![h] = [NoPipe EXCEPT !.size = Len(file),
                                                    !.expect = lastPut]]
  /\ UNCHANGED <<heartbeatVars, queue, sentCount, ctrlVars, fsEvents,
                 ev, pg, file, lastPut>>

GetRead(h) ==
  /\ pc[h] = "get_read"
  /\ CanRun(h)
  /\ resp' = [resp EXCEPT ![h] =
                [status |-> 200,
                 body |-> SubSeq(file, 1, Min(pl[h].size, Len(file)))]]
  /\ pc' = [pc EXCEPT ![h] = "done"]
  /\ UNCHANGED <<heartbeatVars, queue, sentCount, ctrlVars, fsEvents,
                 kind, ev, pg, pl, file, lastPut, nreq, overlap>>

\* ------------------------------------------------------------------ pages
Placeholder == "__options__"

\* client.html as the binary embeds it (server.rs 126-127), cut at the
\* placeholder: it names the options in two places.
DesignerString == <<"<head>", Placeholder, "<body>", Placeholder, "</body>">>

\* str::replace: every occurrence of from becomes to.
RECURSIVE Replace(_, _, _)
Replace(s, from, to) ==
  IF s = <<>> THEN <<>>
  ELSE <<IF Head(s) = from THEN to ELSE Head(s)>> \o Replace(Tail(s), from, to)

DesignOptions == "{\"mode\": \"design\"}"      \* server.rs 34

RunOptionsAsDesign == DesignOptions

RunOptions == "{\"mode\": \"run\"}"            \* server.rs 28

\* server.rs 27-29, 33-35: the page with the options put in is the body.
PageHandler(h, k, options) ==
  /\ Accept(h)
  /\ kind' = [kind EXCEPT ![h] = k]
  /\ nreq' = nreq + 1
  /\ overlap' = overlap
  /\ pc' = [pc EXCEPT ![h] = "done"]
  /\ resp' = [resp EXCEPT ![h] =
                [status |-> 200,
                 body |-> Replace(DesignerString, Placeholder, options)]]
  /\ UNCHANGED <<heartbeatVars, queue, sentCount, ctrlVars, fsEvents,
                 ev, pg, pl, file, lastPut>>

Run(h) == PageHandler(h, "run", RunOptions)

Design(h) == PageHandler(h, "design", DesignOptions)

\* ------------------------------------------------------------ specifications
\* Requests to /eval against the controller, with runtimes killed from outside.
NextEval ==
  \/ CtrlStartAll
  \/ \E n \in Declared : RuntimeReady(n)
  \/ CtrlGetUri
  \/ CtrlProcessExited
  \/ \E n \in Declared : KillRuntime(n)
  \/ \E h \in Handlers, m \in EvalBodies : EvalStart(h, m)
  \/ \E h \in Handlers : EvalRecv(h)
  \/ \E h \in Handlers, reply \in BackendReplies : EvalBackendReply(h, reply)
  \/ \E h \in Handlers : EvalBackendDown(h)
  \/ \E h \in Handlers : Finish(h)

SpecEval == Init /\ [][NextEval]_vars

\* Requests to /eval while the watcher and the monitor signal the controller
\* and the idle shutdown closes the channels.
NextShutdown ==
  \/ CtrlStartAll
  \/ \E n \in Declared : RuntimeReady(n)
  \/ CtrlGetUri
  \/ CtrlHeartbeatTimeout
  \/ CtrlFsChanged
  \/ FsWatch
  \/ TickTo(clock + IdleThreshold)
  \/ MonitorPoll
  \/ \E h \in Handlers, m \in ShortBodies : EvalStart(h, m)
  \/ \E h \in Handlers : EvalRecv(h)
  \/ \E h \in Handlers : EvalRecvClosed(h)
  \/ \E h \in Handlers, reply \in BackendReplies : EvalBackendReply(h, reply)
  \/ \E h \in Handlers : EvalBackendDown(h)
  \/ \E h \in Handlers : Finish(h)

SpecShutdown == Init /\ [][NextShutdown]_vars

\* The same with the scheduling the threads get: the controller thread keeps
\* running while it has a message to take, a handler whose recv() or POST can
\* return goes on, a runtime that was spawned comes up, and the monitor polls.
\* Nothing obliges a request, a file change or the passing of time to happen.
FairShutdown ==
  /\ SpecShutdown
  /\ WF_vars(CtrlStartAll)
  /\ WF_vars(CtrlGetUri)
  /\ WF_vars(CtrlHeartbeatTimeout)
  /\ WF_vars(CtrlFsChanged)
  /\ WF_vars(MonitorPoll)
  /\ \A n \in Declared : WF_vars(RuntimeReady(n))
  /\ \A h \in Handlers : WF_vars(EvalRecv(h))
  /\ \A h \in Handlers : WF_vars(EvalRecvClosed(h))
  /\ \A h \in Handlers : WF_vars(\E reply \in BackendReplies : EvalBackendReply(h, reply))
  /\ \A h \in Handlers : WF_vars(EvalBackendDown(h))
  /\ \A h \in Handlers : WF_vars(Finish(h))

\* Requests to /ping against the clock and the heartbeat monitor.
NextHeartbeat ==
  \/ \E t \in Instants : TickTo(t)
  \/ MonitorPoll
  \/ \E h \in Handlers : PingStart(h)
  \/ \E h \in Handlers : PingClock(h)
  \/ \E h \in Handlers : PingCas(h)
  \/ \E h \in Handlers : PingCasSpurious(h)
  \/ \E h \in Handlers : PingLoad(h)
  \/ \E h \in Handlers : Finish(h)

SpecHeartbeat == Init /\ [][NextHeartbeat]_vars

\* Requests to /pipeline against app.json.
NextPipeline ==
  \/ \E h \in Handlers, b \in Bodies : PutCreate(h, b)
  \/ \E h \in Handlers, b \in Bodies : PutCreateFail(h, b)
  \/ \E h \in Handlers, k \in 1..MaxBodyLen : PutWrite(h, k)
  \/ \E h \in Handlers : PutWriteFail(h)
  \/ \E h \in Handlers : GetStart(h)
  \/ \E h \in Handlers : GetRead(h)
  \/ \E h \in Handlers : Finish(h)

SpecPipeline == Init /\ [][NextPipeline]_vars

\* Requests to / and /design next to Pings and the controller taking up
\* its first message.
NextPages ==
  \/ \E h \in Handlers : Run(h)
  \/ \E h \in Handlers : Design(h)
  \/ \E h \in Handlers : Finish(h)
  \/ CtrlStartAll
  \/ \E t \in Instants : TickTo(t)
  \/ \E h \in Handlers : PingStart(h)
  \/ \E h \in Handlers : PingClock(h)
  \/ \E h \in Handlers : PingCas(h)
  \/ \E h \in Handlers : PingLoad(h)

SpecPages == Init /\ [][NextPages]_vars

\* The controller's queue fed by start_server, the watcher, the heartbeat
\* monitor and Evals, up to the shutdown.
NextControl ==
  \/ CtrlStartAll
  \/ \E n \in Declared : RuntimeReady(n)
  \/ CtrlGetUri
  \/ CtrlHeartbeatTimeout
  \/ CtrlFsChanged
  \/ FsWatch
  \/ TickTo(clock + IdleThreshold)
  \/ MonitorPoll
  \/ \E h \in Handlers, m \in ShortBodies : EvalStart(h, m)
  \/ \E h \in Handlers : EvalRecv(h)
  \/ \E h \in Handlers : EvalRecvClosed(h)
  \/ \E h \in Handlers : Finish(h)

SpecControl == Init /\ [][NextControl]_vars

\* Evals and Pings side by side on the workers.
NextWorkers ==
  \/ CtrlStartAll
  \/ \E n \in Declared : RuntimeReady(n)
  \/ CtrlGetUri
  \/ \E h \in Handlers, m \in ShortBodies : EvalStart(h, m)
  \/ \E h \in Handlers : EvalRecv(h)
  \/ \E h \in Handlers, reply \in BackendReplies : EvalBackendReply(h, reply)
  \/ \E t \in Instants : TickTo(t)
  \/ \E h \in Handlers : PingStart(h)
  \/ \E h \in Handlers : PingClock(h)
  \/ \E h \in Handlers : PingCas(h)
  \/ \E h \in Handlers : PingLoad(h)
  \/ \E h \in Handlers : Finish(h)

SpecWorkers == Init /\ [][NextWorkers]_vars

\* The whole gateway.
Next ==
  \/ NextEval
  \/ NextShutdown
  \/ NextHeartbeat
  \/ NextPipeline
  \/ NextPages
  \/ NextControl
  \/ NextWorkers

Spec == Init /\ [][Next]_vars

\* ------------------------------------------------------------------ claims
Evals == {h \in Handlers : kind[h] = "eval"}
Pings == {h \in Handlers : kind[h] = "ping"}
Puts == {h \in Handlers : kind[h] = "put"}
Gets == {h \in Handlers : kind[h] = "get"}

\* C1: the reply an eval handler receives from the controller is the reply to
\* the GetUri that this handler sent, never the reply to another GetUri.
C1_ReplyToRequester ==
  \A h \in Evals : ev[h].got # 0 => ev[h].got = ev[h].sent

\* C2: the POST of an Eval goes to the evaluation path of the endpoint of the
\* runtime its first manifest names, with that manifest's calls, and a backend
\* success is relayed with status 200.
C2_EvalDispatch ==
  \A h \in Evals :
    /\ ev[h].got # 0 => /\ ev[h].uri.rt = ev[h].rt
                        /\ ev[h].uri.path = <<"eval">>
    /\ pc[h] = "done" => /\ resp[h].status = 200
                         /\ resp[h].body.val = ParseJson(ev[h].reply.json).val

\* C3: no failure inside an Eval that has sent its GetUri leaves the handler
\* panicked; each one ends in an HTTP error response.
C3_FailuresAreReported ==
  \A h \in Evals : ev[h].sent # 0 => pc[h] # "panicked"

\* C4: an Eval naming an undeclared runtime gets UnknownRuntime: it issues no
\* POST, does not panic, answers with an error status, and is not left waiting
\* on the reply channel once the controller has failed its GetUri.
C4_UnknownRuntimeFails ==
  \A h \in Evals :
    ev[h].sent # 0 /\ ev[h].rt \notin Declared =>
      /\ pc[h] \notin {"wait_backend", "panicked"}
      /\ pc[h] = "done" => resp[h].status >= 400
      /\ ~(pc[h] = "wait_uri" /\ ctrl.pc = "recv" /\ ctrl.id = ev[h].sent
             /\ ctrl.err = "UnknownRuntime")

\* C5: last_heartbeat never decreases from one state to the next, and every
\* new value it takes is, whole, the clock reading of a Ping that was storing.
C5_HeartbeatMonotone ==
  [][/\ hb' >= hb
     /\ hb' # hb => \E h \in Pings : pc[h] = "ping_cas" /\ hb' = pg[h].read]_vars

\* Two Pings in conflict: one is about to fail its compare-and-swap because
\* another has stored a later timestamp than the one it holds.
C5_Witness ==
  \E h \in Pings : pc[h] = "ping_cas" /\ pg[h].prev # hb /\ pg[h].new < hb

\* C6: the timestamp in a Ping's response is the value this Ping stored.
C6_PingReturnsOwnWrite ==
  \A h \in Pings : pc[h] = "done" => resp[h].body = Digits(pg[h].wrote)

\* C7: an Eval begun after a runtime process was killed does not POST to the
\* endpoint that process had.
C7_NoDeadEndpoint ==
  \A h \in Evals :
    ev[h].got # 0 =>
      \A n \in Declared : ev[h].uri.rt = n => ev[h].uri.gen > ev[h].kgen[n]

C9_PutGetRoundTrip ==
  \A h \in Gets :
    pc[h] = "done" /\ pl[h].expect # NoFile =>
      resp[h].status = 200 /\ resp[h].body = pl[h].expect

\* C10: PutPipeline never panics, and answers success only after writing the
\* whole body.
C10_PutReportsFailure ==
  \A h \in Puts :
    /\ pc[h] # "panicked"
    /\ pc[h] = "done" /\ resp[h].status = 200 => pl[h].pos = Len(pl[h].req)

\* C11: a Run or a Design changes nothing but its own request: the heartbeat
\* cell, the control queue, the reply channel, the runtime table and the
\* pipeline file are left as they were. Its answer is the designer page with
\* every placeholder replaced by the mode flag of the handler, "run" for Run
\* and "design" for Design, and is equal to the page everywhere else.
C11_PagesOnlyDifferInMode ==
  [][\A h \in Handlers :
       (kind[h] = "none" /\ kind'[h] \in {"run", "design"}) =>
         /\ hb' = hb /\ queue' = queue /\ ctrl' = ctrl
         /\ table' = table /\ file' = file
         /\ pc'[h] = "done"
         /\ resp'[h].status = 200
         /\ Len(resp'[h].body) = Len(DesignerString)
         /\ \A i \in 1..Len(DesignerString) :
              resp'[h].body[i] =
                IF DesignerString[i] # Placeholder THEN DesignerString[i]
                ELSE IF kind'[h] = "run" THEN "{\"mode\": \"run\"}"
                     ELSE "{\"mode\": \"design\"}"]_vars

\* A Run and a Design have both answered, each with its own page.
C11_Witness ==
  \E r, d \in Handlers :
    /\ kind[r] = "run" /\ pc[r] = "done"
    /\ kind[d] = "design" /\ pc[d] = "done"
    /\ resp[r].body # resp[d].body

StartedAll == \A n \in Declared : table[n].status # "None"

\* C12: the controller takes its messages one at a time from the head of the
\* queue, and the first it takes is StartAll: until StartAll has been
\* processed it is at the head, and no GetUri, FsChanged or HeartbeatTimeout
\* is taken before the runtimes have been started.
C12_StartAllFirst ==
  [][/\ ~StartedAll => (queue # <<>> /\ Head(queue).type = "StartAll")
     /\ Len(queue') < Len(queue) =>
          /\ ctrl.pc = "recv"
          /\ \/ queue' = Tail(queue)
             \/ Head(queue).type = "HeartbeatTimeout" /\ queue' = <<>>
          /\ Head(queue).type # "StartAll" => StartedAll]_vars

\* StartAll, the startup GetUri, two GetUri of Evals, an FsChanged and the
\* HeartbeatTimeout have all been taken.
C12_Witness ==
  /\ ctrl.pc = "stopped"
  /\ fsEvents > 0
  /\ sentCount > 2

\* C13: the runtime table belongs to the controller. It changes only in a
\* step of the controller, in which no handler, the monitor or the watcher
\* moves; a step of a handler, the monitor or the watcher leaves the table and
\* the processes alone and at most appends one message to the control queue;
\* and the only thing of the table a handler ever holds is the url it received
\* as the reply the controller was sending.
C13_TableOnlyInController ==
  [][/\ table' # table =>
          /\ ctrl.pc = "recv"
          /\ pc' = pc /\ kind' = kind /\ ev' = ev /\ resp' = resp
          /\ fsEvents' = fsEvents /\ monitorDone' = monitorDone
     /\ (pc' # pc \/ fsEvents' # fsEvents \/ monitorDone' # monitorDone) =>
          /\ table' = table /\ alive' = alive
          /\ \/ queue' = queue
             \/ /\ Len(queue') = Len(queue) + 1
                /\ SubSeq(queue', 1, Len(queue)) = queue
     /\ \A h \in Handlers :
          (ev'[h].uri # ev[h].uri /\ ev'[h].uri # NoUrl) =>
             /\ ctrl.pc = "send"
             /\ ev'[h].uri = EvalUri(ctrl.url)
             /\ ctrl'.pc = "recv"]_vars

\* An Eval holds a url it received, the watcher has sent a change and the
\* monitor has signalled.
C13_Witness ==
  /\ \E h \in Handlers : ev[h].got # 0 /\ ev[h].uri # NoUrl
  /\ fsEvents > 0
  /\ monitorDone

\* C14: an Eval that waits for the controller's reply holds up nobody: while
\* it waits, also when the controller has nothing to send and nothing left to
\* process, a request arriving at any idle slot, one of the same worker
\* included, finds a thread to run its handler, so that a Ping can store the
\* heartbeat.
C14_WaitingEvalHoldsNoWorker ==
  \A h \in Evals, o \in Handlers :
    ( /\ pc[h] = "wait_uri"
      /\ ctrl.pc = "recv" /\ queue = <<>>
      /\ pc[o] = "idle" )
    => CanRun(o)

C16_SequentialEvalsOwnReply ==
  ~overlap => \A h \in Evals : ev[h].got # 0 => ev[h].got = ev[h].sent


InQueue(t) == \E i \in 1..Len(queue) : queue[i].type = t

\* C17: the controller does not stay blocked on the reply of the startup
\* GetUri("r"): an FsChanged or a HeartbeatTimeout that is in the queue is
\* taken out of it in the end, also when no Eval is ever received.
C17_LaterMessagesProcessed ==
  \A t \in {"FsChanged", "HeartbeatTimeout"} :
    (InQueue(t) /\ sentCount = 1) ~> (~InQueue(t) \/ sentCount > 1)

\* C18: a PutPipeline is seen whole or not at all. A GetPipeline that has
\* answered while a PutPipeline is writing returned the content the file had
\* before that put began or the full body of the put, never an empty or a
\* partial file; and once two PutPipelines have both written their bodies to
\* the end, the file is the body of one of them.
C18_PutIsAtomic ==
  /\ \A g \in Gets, p \in Puts :
       (pc[g] = "done" /\ resp[g].status = 200 /\ pc[p] = "put_write")
       => resp[g].body \in {pl[p].old, pl[p].req}
  /\ \A p \in Puts, q \in Puts :
       ( /\ p # q /\ pc[p] = "done" /\ pc[q] = "done"
         /\ pl[p].pos = Len(pl[p].req) /\ pl[q].pos = Len(pl[q].req) )
       => file \in {pl[p].req, pl[q].req}

\* C19: an Eval whose manifests are empty is turned down with an error
\* response: its handler does not panic, sends no GetUri and posts nothing.
C19_EmptyManifestsRejected ==
  \A h \in Evals :
    ev[h].empty =>
      /\ pc[h] # "panicked"
      /\ ev[h].sent = 0
      /\ ev[h].uri = NoUrl
      /\ pc[h] = "done" => resp[h].status \in 400..599

====
